---- MODULE Spec2Model ----
(***************************************************************************)
(* processSST.py: the parse loop that builds the dictionary of monthly     *)
(* grids from a HadISST text file, and the loop that renders every grid as *)
(* a raw TIFF and a palettised PNG.                                        *)
(*                                                                         *)
(* A line is a sequence of one-character strings, exactly what readline()  *)
(* returns (the terminating newline included).  The grid of the program is *)
(* 180 x 360; the model keeps the six-character field width and the        *)
(* 50-character header threshold of the program and scales the grid to     *)
(* Rows x Cols.  Cols is chosen so that FieldWidth * (Cols - 1) is at      *)
(* least HeaderLimit, as 6 * 359 is in the program: a data line can then   *)
(* be cut short enough to lose its last field and still be a data line.    *)
(*                                                                         *)
(* Stores into the int16 array wrap modulo 2^16.  This is what the numpy   *)
(* releases the program runs on do (np.float, used at line 87, exists only *)
(* in those).                                                              *)
(***************************************************************************)
EXTENDS Integers, Sequences, FiniteSets

VARIABLES
    pc,      \* "parse" (in the while loop), "render" (in the for loop), "done", "failed"
    months,  \* the dict: month token -> grid
    keys,    \* the dict's insertion order, which months.items() follows
    D, M, Y, \* the names bound by the header branch; Unbound before the first header
    r,       \* the row cursor; NoRow before the first header
    err,     \* the exception that ended the run, "" when none
    i,       \* position of the for loop in months.items()
    files,   \* the image files written: name -> [mode, data]
    file     \* history: the lines readline() has returned so far

vars == <<pc, months, keys, D, M, Y, r, err, i, files, file>>

----------------------------------------------------------------------------
(* Bounds and program constants *)

Rows == 2           \* stands for the 180 of np.zeros((180,360))
Cols == 10          \* stands for the 360 of np.zeros((180,360)) and range(360)
MaxLines == 6       \* longest file read
MaxHeaders == 2     \* most lines shorter than HeaderLimit in a file

FieldWidth == 6
HeaderLimit == 50
LAND == -32768
ICE == -1000
ClipLo == 2
ClipHi == 255

Unbound == <<>>     \* a name not yet bound (no token is empty)
NoRow == -1         \* r not yet bound

NL == "\n"
Whitespace == {" ", NL}
DigitChars == <<"0", "1", "2", "3", "4", "5", "6", "7", "8", "9">>
Digits == {DigitChars[d] : d \in 1..10}

Min(a, b) == IF a < b THEN a ELSE b

----------------------------------------------------------------------------
(* str.split(): the maximal runs of non-whitespace characters *)

RECURSIVE SplitFrom(_, _, _, _)
SplitFrom(s, k, cur, acc) ==
    LET flushed == IF cur = <<>> THEN acc ELSE Append(acc, cur)
    IN  IF k > Len(s) THEN flushed
        ELSE IF s[k] \in Whitespace THEN SplitFrom(s, k + 1, <<>>, flushed)
        ELSE SplitFrom(s, k + 1, Append(cur, s[k]), acc)

split(s) == SplitFrom(s, 1, <<>>, <<>>)

----------------------------------------------------------------------------
(* int(str): surrounding whitespace stripped, an optional sign, then digits *)
(* that single underscores may separate.  [ok |-> FALSE] is ValueError.    *)

RECURSIVE StripLeft(_)
StripLeft(s) ==
    IF s # <<>> /\ s[1] \in Whitespace THEN StripLeft(Tail(s)) ELSE s

RECURSIVE StripRight(_)
StripRight(s) ==
    IF s # <<>> /\ s[Len(s)] \in Whitespace
    THEN StripRight(SubSeq(s, 1, Len(s) - 1)) ELSE s

strip(s) == StripRight(StripLeft(s))

DigitValue(ch) == CHOOSE d \in 0..9 : DigitChars[d + 1] = ch

IntBodyOk(b) ==
    /\ Len(b) > 0
    /\ b[1] \in Digits
    /\ b[Len(b)] \in Digits
    /\ \A k \in 1..Len(b) : b[k] \in Digits \cup {"_"}
    /\ \A k \in 1..(Len(b) - 1) : ~(b[k] = "_" /\ b[k + 1] = "_")

RECURSIVE IntBodyValue(_, _)
IntBodyValue(b, acc) ==
    IF b = <<>> THEN acc
    ELSE IF b[1] = "_" THEN IntBodyValue(Tail(b), acc)
    ELSE IntBodyValue(Tail(b), 10 * acc + DigitValue(b[1]))

int(s) ==
    LET t == strip(s)
        signed == t # <<>> /\ t[1] \in {"+", "-"}
        body == IF signed THEN Tail(t) ELSE t
    IN  IF IntBodyOk(body)
        THEN [ok |-> TRUE,
              val |-> IF signed /\ t[1] = "-" THEN -IntBodyValue(body, 0)
                      ELSE IntBodyValue(body, 0)]
        ELSE [ok |-> FALSE, val |-> 0]

----------------------------------------------------------------------------
(* The slice line[6*c:6*c+6] (never an error: a slice past the end is short *)
(* or empty) and the store of a Python int into an int16 array element.    *)

\* the slice taken one character too far to the right
Field_Shifted(line, c) ==
    LET lo == FieldWidth * c + 2
        hi == Min(FieldWidth * c + FieldWidth + 1, Len(line))
    IN  IF lo > hi THEN <<>> ELSE SubSeq(line, lo, hi)

Field(line, c) ==
    LET lo == FieldWidth * c + 1
        hi == Min(FieldWidth * c + FieldWidth, Len(line))
    IN  IF lo > hi THEN <<>> ELSE SubSeq(line, lo, hi)

Int16(v) == ((v + 32768) % 65536) - 32768

\* np.ones in place of np.zeros
ZeroGrid_Ones == [row \in 0..(Rows - 1) |-> [col \in 0..(Cols - 1) |-> 1]]

ZeroGrid == [row \in 0..(Rows - 1) |-> [col \in 0..(Cols - 1) |-> 0]]

\* an empty slice taken for 0 instead of raising
RECURSIVE GoodPrefix_EmptyIsZero(_, _)
GoodPrefix_EmptyIsZero(line, c) ==
    IF c < Cols /\ (Field(line, c) = <<>> \/ int(Field(line, c)).ok)
    THEN GoodPrefix_EmptyIsZero(line, c + 1) ELSE c

\* Number of leading fields of the line that int() accepts (Cols when all do)
RECURSIVE GoodPrefix(_, _)
GoodPrefix(line, c) ==
    IF c < Cols /\ int(Field(line, c)).ok THEN GoodPrefix(line, c + 1) ELSE c

\* Row `row` of grid g after the stores for columns 0..n-1 of the line
StoreRow(g, row, line, n) ==
    [g EXCEPT ![row] = [col \in 0..(Cols - 1) |->
        IF col < n THEN Int16(int(Field(line, col)).val) ELSE g[row][col]]]

\* one array shared by every month
StoreMonth_Aliased(ms, m, row, line, n) ==
    [k \in DOMAIN ms |-> StoreRow(ms[k], row, line, n)]

\* line 52 for one row: months[M][r, 0..n-1] = ...
StoreMonth(ms, m, row, line, n) == [ms EXCEPT ![m] = StoreRow(ms[m], row, line, n)]

\* the row cursor left where it is
RowAfter_Stuck(row) == row

\* line 53
RowAfter(row) == row + 1

\* an existing key keeps its value
DictSet_KeepOld(d, k, v) ==
    [x \in (DOMAIN d) \cup {k} |-> IF x \in DOMAIN d THEN d[x] ELSE v]

\* line 47 (and the writing of a file under a name): d[k] = v
DictSet(d, k, v) == [x \in (DOMAIN d) \cup {k} |-> IF x = k THEN v ELSE d[x]]

----------------------------------------------------------------------------
(* The files the parse loop is run on.  A line is drawn when readline() is *)
(* called, so the file is any sequence of at most MaxLines of these lines; *)
(* a line without its newline can only be the last one.                    *)

RECURSIVE Cycle(_, _)
\* the data line whose field c is pattern[(c % Len(pattern)) + 1], without newline
Cycle(pattern, c) ==
    IF c >= Cols THEN <<>>
    ELSE pattern[(c % Len(pattern)) + 1] \o Cycle(pattern, c + 1)

\* every field is an integer; 40000 and -40000 do not fit an int16
PatternA == << <<" ", " ", " ", "1", "2", "3">>, <<" ", " ", "-", "1", "8", "0">>,
               <<"-", "3", "2", "7", "6", "8">>, <<" ", "-", "1", "0", "0", "0">>,
               <<" ", "4", "0", "0", "0", "0">>, <<" ", " ", "3", "0", "0", "0">>,
               <<"+", "7", " ", " ", " ", " ">>, <<"0", "0", "1", "_", "0", "0">>,
               <<"-", "4", "0", "0", "0", "0">> >>
\* every field is an integer that fits an int16
PatternB == << <<" ", " ", " ", " ", "2", "5">>, <<" ", " ", "2", "9", "9", "9">>,
               <<" ", " ", "-", "5", "0", "0">>, <<" ", " ", " ", " ", " ", "0">> >>
PatternX == << <<" ", " ", " ", " ", "2", "5">>, <<" ", " ", " ", " ", " ", "x">> >>

Prefix(s, n) == SubSeq(s, 1, n)

Header0101 == <<"1", " ", "0", "1", " ", "1", "8", "7", "0", NL>>
Header2    == <<"1", " ", "2", " ", "1", "8", "7", "0", NL>>
Header01b  == <<"2", " ", "0", "1", " ", "1", "8", "7", "1", NL>>
HeaderTwoTokens == <<"1", " ", "0", "1", NL>>
EmptyLine  == <<NL>>

FullA == Cycle(PatternA, 0) \o <<NL>>
FullB == Cycle(PatternB, 0) \o <<NL>>
FullX == Cycle(PatternX, 0) \o <<NL>>
\* the last field is missing altogether: FieldWidth * (Cols - 1) characters
ShortNoLast == Prefix(Cycle(PatternA, 0), FieldWidth * (Cols - 1) - 1) \o <<NL>>
\* the newline is all there is of the last field
ShortOnlyNL == Prefix(Cycle(PatternA, 0), FieldWidth * (Cols - 1)) \o <<NL>>
\* the file ends inside the last field, which has lost its last two characters
ShortAtEOF == Prefix(Cycle(PatternA, 0), FieldWidth * Cols - 2)
\* the file ends inside the last field but one
ShortTwoLost == Prefix(Cycle(PatternA, 0), FieldWidth * (Cols - 1) - 3)

HeaderLines == {Header0101, Header2, Header01b, HeaderTwoTokens, EmptyLine}
DataLines == {FullA, FullB, FullX, ShortNoLast, ShortOnlyNL, ShortAtEOF, ShortTwoLost}
InputLines == HeaderLines \cup DataLines

\* readline() can return another line only after a line that ended in a newline
IsHeader(line) == Len(line) < HeaderLimit
HeadersRead == Cardinality({k \in 1..Len(file) : IsHeader(file[k])})

MoreInput == IF file = <<>> THEN TRUE ELSE file[Len(file)][Len(file[Len(file)])] = NL

----------------------------------------------------------------------------
Init ==
    /\ pc = "parse"
    /\ months = <<>>
    /\ keys = <<>>
    /\ D = Unbound /\ M = Unbound /\ Y = Unbound
    /\ r = NoRow
    /\ err = ""
    /\ i = 0
    /\ files = <<>>
    /\ file = <<>>

\* the exception caught and the loop carried on
Fail_Swallowed(e) == pc' = pc /\ err' = e

\* an exception nothing catches ends the program
Fail(e) == pc' = "failed" /\ err' = e

\* lines 40-48: a line shorter than 50 characters is a header
header(line) ==
    LET toks == split(line)
    IN  IF Len(toks) < 3
        THEN /\ Fail("ValueError")
             /\ UNCHANGED <<months, keys, D, M, Y, r>>
        ELSE /\ D' = toks[1] /\ M' = toks[2] /\ Y' = toks[3]
             /\ months' = DictSet(months, toks[2], ZeroGrid)
             /\ keys' = IF toks[2] \in DOMAIN months THEN keys ELSE Append(keys, toks[2])
             /\ r' = 0
             /\ UNCHANGED <<pc, err>>

\* lines 49-53: any other line is a row of 360 fields.  The right-hand side
\* int(...) is evaluated before the target months[M][r,c].
data(line) ==
    LET n == GoodPrefix(line, 0)
    IN  IF n = 0
        THEN Fail("ValueError") /\ UNCHANGED <<months, r>>
        ELSE IF M = Unbound
        THEN Fail("NameError") /\ UNCHANGED <<months, r>>
        ELSE IF r >= Rows
        THEN Fail("IndexError") /\ UNCHANGED <<months, r>>
        ELSE /\ months' = StoreMonth(months, M, r, line, n)
             /\ IF n < Cols
                THEN Fail("ValueError") /\ r' = r
                ELSE r' = RowAfter(r) /\ UNCHANGED <<pc, err>>

\* lines 35-39: readline() returns '' at the end of the file
EndOfInput ==
    /\ pc = "parse"
    /\ pc' = "render"
    /\ UNCHANGED <<months, keys, D, M, Y, r, err, i, files, file>>

HeaderLine ==
    /\ pc = "parse" /\ MoreInput /\ Len(file) < MaxLines /\ HeadersRead < MaxHeaders
    /\ \E line \in InputLines :
        /\ Len(line) >= 1 /\ IsHeader(line)
        /\ file' = Append(file, line)
        /\ header(line)
    /\ UNCHANGED <<i, files>>

DataLine ==
    /\ pc = "parse" /\ MoreInput /\ Len(file) < MaxLines
    /\ \E line \in InputLines :
        /\ ~IsHeader(line)
        /\ file' = Append(file, line)
        /\ data(line)
    /\ UNCHANGED <<keys, D, M, Y, i, files>>

----------------------------------------------------------------------------
(* lines 74-96: one iteration of the for loop renders one month.  The two   *)
(* encoders (tifffile.imsave, PIL) are taken to succeed.                    *)

\* lines 87-91 for one cell: raw/100 + 5, times 253/35, plus 2, clipped to
\* [2, 255], truncated by astype(np.uint8).  With t = (raw + 500) * 253 the
\* unclipped value is t/3500 + 2; the float64 evaluation truncates to the same
\* integer as the exact quotient for every int16 raw value.
\* rounding to the nearest index in place of truncation
Gradient_Rounded(raw) ==
    LET t == (raw + 500) * 253
    IN  IF t <= 0 THEN ClipLo
        ELSE IF t >= (ClipHi - ClipLo) * 3500 THEN ClipHi
        ELSE ((2 * t + 3500) \div 7000) + ClipLo

Gradient(raw) ==
    LET t == (raw + 500) * 253
    IN  IF t <= 0 THEN ClipLo
        ELSE IF t >= (ClipHi - ClipLo) * 3500 THEN ClipHi
        ELSE (t \div 3500) + ClipLo

\* the two masked assignments made before the clip, which then undoes them
ColourIndex_ClipLast(raw) ==
    LET x == IF raw = ICE THEN 1 ELSE IF raw = LAND THEN 0 ELSE Gradient(raw)
    IN  IF x < ClipLo THEN ClipLo ELSE x

\* lines 87-93 for one cell: the gradient, then the two masked assignments
ColourIndex(raw) ==
    IF raw = ICE THEN 1
    ELSE IF raw = LAND THEN 0
    ELSE Gradient(raw)

ColourMap(na) == [row \in DOMAIN na |-> [col \in DOMAIN na[row] |-> ColourIndex(na[row][col])]]

\* lines 76-80
PadMonth(month) == IF Len(month) < 2 THEN <<"0">> \o month ELSE month
DMYName(month) == <<"0", "1", "-">> \o PadMonth(month) \o <<"-">> \o Y
RawName(month) == DMYName(month) \o <<"-", "r", "a", "w", ".", "t", "i", "f">>
RgbName(month) == DMYName(month) \o <<"-", "R", "G", "B", ".", "p", "n", "g">>

RenderMonth ==
    /\ pc = "render" /\ i < Len(keys)
    /\ LET month == keys[i + 1]
           na == months[month]
       IN  files' = DictSet(DictSet(files, RawName(month), [mode |-> "int16", data |-> na]),
                            RgbName(month), [mode |-> "P", data |-> ColourMap(na)])
    /\ i' = i + 1
    /\ UNCHANGED <<pc, months, keys, D, M, Y, r, err, file>>

RenderEnd ==
    /\ pc = "render" /\ i = Len(keys)
    /\ pc' = "done"
    /\ UNCHANGED <<months, keys, D, M, Y, r, err, i, files, file>>

Next == EndOfInput \/ HeaderLine \/ DataLine \/ RenderMonth \/ RenderEnd

Spec == Init /\ [][Next]_vars

----------------------------------------------------------------------------
(* The colour mapping as a function of the raw value: the for loop started  *)
(* on the dictionary that the parse loop builds from a one-month file whose *)
(* first field is raw and whose other fields are all `other`.               *)

Margin == 100       \* how far beyond the ice value and the +30 degrees the raw values go

ColourRange == ((ICE - Margin)..(3000 + Margin)) \cup {LAND, LAND + 1, 32767}
Neighbours == {LAND, ICE, 0}

RECURSIVE Decimal(_)
Decimal(n) ==
    IF n < 10 THEN <<DigitChars[n + 1]>>
    ELSE Decimal(n \div 10) \o <<DigitChars[(n % 10) + 1]>>

RECURSIVE PadLeft(_)
PadLeft(s) == IF Len(s) >= FieldWidth THEN s ELSE PadLeft(<<" ">> \o s)

\* the value as the data set writes it: right-justified in six characters
Format6(n) == PadLeft(IF n < 0 THEN <<"-">> \o Decimal(-n) ELSE Decimal(n))

RECURSIVE Repeat(_, _)
Repeat(s, n) == IF n = 0 THEN <<>> ELSE s \o Repeat(s, n - 1)

ColourFile(raw, other) ==
    <<Header0101, Format6(raw) \o Repeat(Format6(other), Cols - 1) \o <<NL>> >>
    \o [k \in 1..(Rows - 1) |-> Repeat(Format6(other), Cols) \o <<NL>>]

\* the grid after the data lines f[2..] have been stored, by the parse loop's own stores
RECURSIVE Load(_, _, _)
Load(g, f, row) ==
    IF row >= Rows THEN g
    ELSE Load(StoreRow(g, row, f[row + 2], Cols), f, row + 1)

InitColour ==
    \E raw \in ColourRange, other \in Neighbours :
        LET f == ColourFile(raw, other)
            toks == split(f[1])
        IN  /\ file = f
            /\ D = toks[1] /\ M = toks[2] /\ Y = toks[3]
            /\ months = DictSet(<<>>, toks[2], Load(ZeroGrid, f, 0))
            /\ keys = <<toks[2]>>
            /\ r = Rows
            /\ pc = "render"
            /\ err = ""
            /\ i = 0
            /\ files = <<>>

NextColour == RenderMonth \/ RenderEnd

SpecColour == InitColour /\ [][NextColour]_vars

----------------------------------------------------------------------------
(* What the properties say about the input, read off the history `file`    *)
(* with the slice [6c, 6c+6) written out, not taken from the parse loop.    *)

\* the characters of the line at positions [6c, 6c+6), as many as the line has
Chars(line, c) ==
    LET last == Min(FieldWidth * c + FieldWidth, Len(line))
    IN  IF FieldWidth * c + 1 > last THEN <<>> ELSE SubSeq(line, FieldWidth * c + 1, last)
\* int() of every slice of every line a file can hold, worked out once
SliceTable == [line \in InputLines |-> [c \in 0..(Cols - 1) |-> int(Chars(line, c))]]
Parsed(line, c) == SliceTable[line][c].val
IsInt(line, c) == SliceTable[line][c].ok

\* exactly Cols six-character integer fields, then the newline or the end of the file
IsFullRow(line) ==
    /\ \/ Len(line) = FieldWidth * Cols
       \/ Len(line) = FieldWidth * Cols + 1 /\ line[Len(line)] = NL
    /\ \A c \in 0..(Cols - 1) : IsInt(line, c)

\* split() of every line a file can hold, worked out once
TokenTable == [line \in InputLines |-> split(line)]
IsGoodHeader(line) == IsHeader(line) /\ Len(TokenTable[line]) >= 3
MonthOf(line) == TokenTable[line][2]

Fits16(v) == v \in -32768..32767
Same16(cell, v) == Fits16(cell) /\ (cell - v) % 65536 = 0

RowHolds(gridrow, line) ==
    \A c \in 0..(Cols - 1) : Same16(gridrow[c], Parsed(line, c))
RowIsZero(gridrow) == \A c \in 0..(Cols - 1) : gridrow[c] = 0

\* the data lines that follow the header at position h, up to the next header
BlockSize(f, h) ==
    Cardinality({k \in (h + 1)..Len(f) : \A j \in (h + 1)..k : ~IsHeader(f[j])})

\* g holds the block of the header at h in its first rows, and zeros below
GridIs(g, f, h) ==
    LET size == BlockSize(f, h)
    IN  /\ DOMAIN g = 0..(Rows - 1)
        /\ \A row \in 0..(Rows - 1) :
            /\ DOMAIN g[row] = 0..(Cols - 1)
            /\ IF row < size THEN RowHolds(g[row], f[h + 1 + row])
               ELSE RowIsZero(g[row])

HeaderPositions == {k \in 1..Len(file) : IsHeader(file[k])}
LastHeaderAt ==
    LET at == HeaderPositions
    IN  IF at = {} THEN 0 ELSE CHOOSE k \in at : \A j \in at : j <= k
DataSince == Len(file) - LastHeaderAt
\* the last header that carries month token m
LastHeaderOf(m) ==
    LET at == {k \in 1..Len(file) : IsGoodHeader(file[k]) /\ MonthOf(file[k]) = m}
    IN  CHOOSE k \in at : \A j \in at : j <= k

NoOutput == DOMAIN files = {} /\ i = 0

\* a header and exactly Rows full rows
OneBlock(f) ==
    /\ Len(f) = Rows + 1
    /\ IsGoodHeader(f[1])
    /\ \A k \in 2..(Rows + 1) : IsFullRow(f[k])

----------------------------------------------------------------------------
C3_DataBeforeHeaderFails ==
    (file # <<>> /\ ~IsHeader(file[1])) =>
        /\ pc = "failed"
        /\ err \in {"NameError", "ValueError"}
        /\ NoOutput

C3_Witness ==
    /\ file = <<FullA>> /\ pc = "failed" /\ err = "NameError" /\ NoOutput

WellFormedFile(f) ==
    /\ Len(f) > 0
    /\ Len(f) % (Rows + 1) = 0
    /\ \A k \in 1..Len(f) :
        IF (k - 1) % (Rows + 1) = 0 THEN IsGoodHeader(f[k]) ELSE IsFullRow(f[k])

\* C5: for a well-formed file (every header followed by exactly Rows full
\* rows) the parse loop does not fail, neither when the file ends right after
\* the last data line nor when one empty line follows it.
C5_EndOfInputStops ==
    LET n == Len(file)
    IN  /\ WellFormedFile(file) => pc # "failed"
        /\ (n >= 2 /\ file[n] = EmptyLine /\ WellFormedFile(Prefix(file, n - 1))) =>
            pc # "failed"


----------------------------------------------------------------------------
\* the months rendered so far whose image has not been written over since
Rendered ==
    {m \in DOMAIN months :
        /\ \E j \in 1..i : keys[j] = m
        /\ \A j \in 1..i : RgbName(keys[j]) = RgbName(m) => keys[j] = m}

\* C6: in every palettised image written, a cell whose raw value is -32768
\* has index 0, a cell whose raw value is -1000 has index 1, whatever the
\* other cells hold, and no other cell has index 0 or 1.
C6_SentinelMapping ==
    \A m \in Rendered :
        LET idx == files[RgbName(m)].data
        IN  \A row \in 0..(Rows - 1), col \in 0..(Cols - 1) :
                LET raw == months[m][row][col]
                IN  /\ raw = -32768 => idx[row][col] = 0
                    /\ raw = -1000 => idx[row][col] = 1
                    /\ raw \notin {-32768, -1000} => idx[row][col] \notin {0, 1}

C6_Witness ==
    /\ pc = "done"
    /\ \E m \in Rendered :
        /\ months[m][0][0] = -32768 /\ months[m][0][1] = -1000
        /\ files[RgbName(m)].data[0][0] = 0 /\ files[RgbName(m)].data[0][1] = 1

\* C7: in every palettised image written, a cell that is neither land nor ice
\* has index 2 when raw <= -500, index 255 when raw >= 3000, and otherwise the
\* integer part of (raw/100 + 5) * 253/35 + 2, that is the idx with
\* idx - 2 <= (raw + 500) * 253 / 3500 < idx - 1, which lies in 2..255.
C7_ClampBoundary ==
    \A m \in Rendered :
        LET idx == files[RgbName(m)].data
        IN  \A row \in 0..(Rows - 1), col \in 0..(Cols - 1) :
                LET raw == months[m][row][col]
                    x == idx[row][col]
                IN  raw \notin {-32768, -1000} =>
                        IF raw <= -500 THEN x = 2
                        ELSE IF raw >= 3000 THEN x = 255
                        ELSE /\ x \in 2..255
                             /\ (x - 2) * 3500 <= (raw + 500) * 253
                             /\ (raw + 500) * 253 < (x - 1) * 3500

C7_Witness ==
    /\ pc = "done"
    /\ \E m \in Rendered :
        /\ months[m][0][0] = 2999
        /\ files[RgbName(m)].data[0][0] = 254

\* C8: once a header has been read, in every state that has not failed the
\* row cursor is between 0 and Rows (180) and counts the data lines read since
\* the last header; the data line that follows Rows data lines fails the run,
\* so that no more than Rows + 1 are ever read, and no output is produced.
C8_RowOverflow ==
    /\ (LastHeaderAt > 0 /\ pc # "failed") => (r \in 0..Rows /\ r = DataSince)
    /\ (LastHeaderAt > 0 /\ DataSince > Rows) =>
        (pc = "failed" /\ err # "" /\ DataSince = Rows + 1 /\ NoOutput)

C8_Witness ==
    /\ LastHeaderAt = 1 /\ DataSince = Rows + 1
    /\ pc = "failed" /\ err = "IndexError" /\ r = Rows

\* the month tokens of the headers read
MonthsSeen == {MonthOf(file[k]) : k \in {j \in HeaderPositions : IsGoodHeader(file[j])}}

\* C9: while parsing has not failed the mapping has exactly one entry for
\* every month token seen in a header; right after a header the grid of its
\* month is all zero and the row cursor is 0, also when the month was seen
\* before; and every grid holds the data lines that follow the last header of
\* its month, and nothing of what preceded that header.
C9_MonthOnlyKeying ==
    pc # "failed" =>
        /\ DOMAIN months = MonthsSeen
        /\ Len(keys) = Cardinality(MonthsSeen)
        /\ (LastHeaderAt > 0 /\ LastHeaderAt = Len(file)) =>
            /\ r = 0
            /\ M = MonthOf(file[Len(file)])
            /\ \A row \in 0..(Rows - 1) : RowIsZero(months[M][row])
        /\ \A m \in DOMAIN months : GridIs(months[m], file, LastHeaderOf(m))

C9_Witness ==
    /\ file = <<Header0101, FullA, Header01b>>
    /\ pc = "parse" /\ r = 0 /\ Y = <<"1", "8", "7", "1">>
    /\ DOMAIN months = {<<"0", "1">>}
    /\ months[<<"0", "1">>][0][0] = 0

\* a header first, and after every header at most Rows full rows
Tolerated(f) ==
    /\ f # <<>>
    /\ IsGoodHeader(f[1])
    /\ \A k \in 1..Len(f) :
        /\ IsGoodHeader(f[k]) \/ IsFullRow(f[k])
        /\ IsHeader(f[k]) => BlockSize(f, k) <= Rows

\* C10: a file in which every header is followed by at most Rows (180) full
\* rows, possibly fewer or none, never fails; when the run is done every
\* month has its two images, and the raw image of a month holds the k data
\* lines of its block in rows 0..k-1 and 0 in every cell of rows k..Rows-1.
C10_IncompletePeriod ==
    /\ Tolerated(file) => (pc # "failed" /\ err = "")
    /\ pc = "done" =>
        \A m \in DOMAIN months :
            /\ RawName(m) \in DOMAIN files /\ RgbName(m) \in DOMAIN files
            /\ m \in Rendered =>
                GridIs(files[RawName(m)].data, file, LastHeaderOf(m))

C10_Witness ==
    /\ pc = "done"
    /\ file = <<Header0101, FullA>>
    /\ files[RawName(<<"0", "1">>)].data[0][0] = 123
    /\ RowIsZero(files[RawName(<<"0", "1">>)].data[Rows - 1])

====
